---- MODULE Spec2Model ----
(***************************************************************************)
(* A model of cheapodb: the delivery-stream initializer and the batched    *)
(* ingestion of stream.py, the crawler orchestration and the constructor   *)
(* of database.py, and the catalog pagination of table.py.  The AWS        *)
(* services the code calls are modelled as small state machines that       *)
(* answer each request; every request and its answer is one step.          *)
(***************************************************************************)
EXTENDS Integers, Sequences, FiniteSets, TLC

(***************************************************************************)
(* Bounds of the model.                                                    *)
(***************************************************************************)
MaxCalls == 2
MaxPolls == 3
MaxRecords == 1001
MaxThreads == 2
MaxCreateCalls == 2
MaxRuns == 2
MaxVersions == 5
MaxPageSize == 3
MaxRequests == 6
MaxObjectVersions == 2
MaxCrawlRuns == 2

(***************************************************************************)
(* Program constants.                                                      *)
(***************************************************************************)
max_tries == 8
SleepSeconds == 10
ChunkSize == 500
MaxResults == 100

VARIABLES
    \* ---- Firehose provider and Stream.initialize (stream.py) ----
    streamStatus,   \* provider: status of the delivery stream of this name
    sPc,            \* position of the caller inside initialize
    callNo,         \* how many calls of initialize were started
    tries,          \* attempts of the body in the current call (backoff)
    raises,         \* attempts of the current call that raised
    creates,        \* create_delivery_stream calls the provider received
    created,        \* create_delivery_stream calls the provider accepted
    callCreates,    \* create calls issued by the current call
    sleeps,         \* the durations of the time.sleep calls of the current call
    creatingSeen,   \* poll responses CREATING in the current call
    faults,         \* provider calls of the current call that raised a transient error
    badSeen,        \* the poll of the current call saw a status other than ACTIVE/CREATING
    results,        \* one record per finished call of initialize
    \* ---- Stream.from_records and its worker pool (stream.py) ----
    records,        \* the input sequence of records
    threads,        \* the `threads` argument (n_jobs of the pool)
    pos,            \* how many records the shared iterator has produced
    tasks,          \* the batches built so far, in the order they were built
    taskState,      \* per batch: "queued", "running", "done" or "failed"
    putCalls,       \* per batch: put_record_batch requests the provider received
    aborting,       \* the pool saw a task raise and dispatches no more
    frResult,       \* "running", "ok" (returned) or "raised"
    \* ---- Glue crawlers, Database.create_crawler and update_tables (database.py) ----
    crawlers,       \* provider: per crawler name, its settings or NoCrawler
    crawlerState,   \* provider: per crawler name, READY, RUNNING or STOPPING
    lastCrawl,      \* provider: per crawler name, the status of its last run
    runs,           \* per crawler name, how many runs the provider has started
    lastCrawlRun,   \* per crawler name, the run LastCrawl describes (0: none)
    createRequests, \* per crawler name, create_crawler requests the provider received
    ccLog,          \* one record per finished call of create_crawler
    uPc,            \* position of the caller inside update_tables
    uName,          \* the `crawler` argument of the current call
    uWait,          \* the `wait` argument of the current call (0 is False)
    uPolls,         \* get_crawler requests of the current call
    uSleeps,        \* the durations of the time.sleep calls of the current call
    uSeen,          \* the crawler state the last poll read
    uRun,           \* the run the start_crawler request of the current call started
    uLog,           \* one record per finished call of update_tables
    \* ---- Glue table versions and Table.get_versions (table.py) ----
    tvCount,        \* provider: how many versions the catalog holds for the table
    tvPageSize,     \* provider: the most versions it puts in one page
    gvPc,           \* position of the caller inside get_versions
    payloadToken,   \* the NextToken entry of `payload`, NoToken when it has none
    gvRequests,     \* the NextToken of every get_table_versions request sent
    versions,       \* the list `versions`
    gvResult,       \* None while running, then "returned" or "KeyError"
    \* ---- the bucket, the catalog and Table.delete_table (table.py) ----
    objects,        \* S3: the object versions in the bucket, <<key, version id>>
    objectsBefore,  \* S3: the object versions when delete_table was called
    catalogTables,  \* Glue: the names of the tables of the catalog database
    include_data,   \* the include_data argument
    delPc,          \* position inside delete_table
    delCalls,       \* the service requests delete_table has sent, in order
    delError,       \* the exception that ended delete_table, if any
    \* ---- Database.__init__ and the services it calls (database.py) ----
    argArn,         \* the iam_role_arn argument
    argCreateRole,  \* the create_iam_role argument
    argAutoCreate,  \* the auto_create argument
    iam_role_arn,   \* self.iam_role_arn
    dPc,            \* position inside the constructor
    dCalls,         \* the service requests the constructor has sent, in order
    dError,         \* the exception that ended the constructor, if any
    roleExists,     \* IAM: a role of this name exists
    roleExisted,    \* IAM: the role existed before the constructor ran
    rolePolicies,   \* IAM: what this constructor attached to the role
    bucketExists,   \* S3: the bucket exists
    catalogExists   \* Glue: the catalog database exists

streamVars == <<streamStatus, sPc, callNo, tries, raises, creates, created,
                callCreates, sleeps, creatingSeen, faults, badSeen, results>>

recVars == <<records, threads, pos, tasks, taskState, putCalls, aborting, frResult>>

crawlVars == <<crawlers, crawlerState, lastCrawl, runs, lastCrawlRun, createRequests,
               ccLog, uPc, uName, uWait, uPolls, uSleeps, uSeen, uRun, uLog>>

tableVars == <<tvCount, tvPageSize, gvPc, payloadToken, gvRequests, versions, gvResult>>

dbVars == <<argArn, argCreateRole, argAutoCreate, iam_role_arn, dPc, dCalls, dError,
            roleExists, roleExisted, rolePolicies, bucketExists, catalogExists>>

delVars == <<objects, objectsBefore, catalogTables, include_data, delPc, delCalls,
             delError>>

vars == <<streamVars, recVars, crawlVars, tableVars, dbVars, delVars>>

notStream == <<recVars, crawlVars, tableVars, dbVars, delVars>>
notRec == <<streamVars, crawlVars, tableVars, dbVars, delVars>>
notCrawl == <<streamVars, recVars, tableVars, dbVars, delVars>>
notTable == <<streamVars, recVars, crawlVars, dbVars, delVars>>
notDb == <<streamVars, recVars, crawlVars, tableVars, delVars>>
notDel == <<streamVars, recVars, crawlVars, tableVars, dbVars>>

None == "None"

(***************************************************************************)
(* Stream.exists: the describe response, or None when the provider         *)
(* answers ResourceNotFoundException.  True when the result is truthy.     *)
(***************************************************************************)
exists_never(status) == FALSE

exists(status) == status # "ABSENT"

(***************************************************************************)
(* The branch of the polling loop of initialize for one describe result.   *)
(***************************************************************************)
PollVerdict_break_on_creating(status) ==
    IF exists(status) /\ status \in {"ACTIVE", "CREATING"} THEN "break" ELSE "raise"

PollVerdict(status) ==
    IF exists(status) /\ status = "ACTIVE" THEN "break"
    ELSE IF exists(status) /\ status = "CREATING" THEN "sleep"
    ELSE "raise"

(***************************************************************************)
(* backoff.on_exception(backoff.expo, Exception, max_tries=8): after an    *)
(* attempt raised, give up when the number of tries reached max_tries.     *)
(***************************************************************************)
GiveUp_one_more(t) == t > max_tries

GiveUp(t) == t >= max_tries

CallRecord(ok, via, seen) ==
    [ok |-> ok, via |-> via, tries |-> tries, raises |-> raises,
     creates |-> callCreates, sleeps |-> sleeps, creatingSeen |-> seen,
     faults |-> faults, badSeen |-> badSeen]

\* The attempt returned normally: backoff hands the return value to the caller.
ReturnNormally(via, seen) ==
    /\ sPc' = "idle"
    /\ results' = Append(results, CallRecord(TRUE, via, seen))

\* The state of the initializer before any call, on a provider without the stream.
StreamIdle ==
    /\ streamStatus = "ABSENT"
    /\ sPc = "idle"
    /\ callNo = 0
    /\ tries = 0
    /\ raises = 0
    /\ creates = 0
    /\ created = 0
    /\ callCreates = 0
    /\ sleeps = <<>>
    /\ creatingSeen = 0
    /\ faults = 0
    /\ badSeen = FALSE
    /\ results = <<>>

\* A caller calls initialize on the stream name.
initialize ==
    /\ sPc = "idle"
    /\ callNo < MaxCalls
    /\ callNo' = callNo + 1
    /\ tries' = 1
    /\ raises' = 0
    /\ callCreates' = 0
    /\ sleeps' = <<>>
    /\ creatingSeen' = 0
    /\ faults' = 0
    /\ badSeen' = FALSE
    /\ sPc' = "probe"
    /\ UNCHANGED <<streamStatus, creates, created, results, notStream>>

\* The attempt raised: backoff.on_exception catches it (any Exception).
AttemptRaises ==
    /\ sPc' = "failed"
    /\ raises' = raises + 1

\* Line 26, `if self.exists: return`: one describe_delivery_stream request.
\* The request may raise a transient error, which exists does not catch.
exists_probe ==
    /\ sPc = "probe"
    /\ \E fault \in BOOLEAN :
        IF fault
        THEN /\ faults' = faults + 1
             /\ AttemptRaises
             /\ UNCHANGED results
        ELSE /\ UNCHANGED faults
             /\ IF exists(streamStatus)
                THEN ReturnNormally("probe", creatingSeen) /\ UNCHANGED raises
                ELSE sPc' = "create" /\ UNCHANGED <<raises, results>>
    /\ UNCHANGED <<streamStatus, callNo, tries, creates, created, callCreates,
                   sleeps, creatingSeen, badSeen, notStream>>

\* Line 50: the create request.  The provider creates an absent stream in
\* status CREATING and rejects a name in use; the request may also raise a
\* transient error and create nothing.
create_delivery_stream ==
    /\ sPc = "create"
    /\ creates' = creates + 1
    /\ callCreates' = callCreates + 1
    /\ \E fault \in BOOLEAN :
        IF fault
        THEN /\ faults' = faults + 1
             /\ AttemptRaises
             /\ UNCHANGED <<streamStatus, created>>
        ELSE /\ UNCHANGED faults
             /\ IF streamStatus = "ABSENT"
                THEN /\ streamStatus' = "CREATING"
                     /\ created' = created + 1
                     /\ sPc' = "poll"
                     /\ UNCHANGED raises
                ELSE /\ AttemptRaises
                     /\ UNCHANGED <<streamStatus, created>>
    /\ UNCHANGED <<callNo, tries, sleeps, creatingSeen, badSeen, results, notStream>>

\* Lines 52-61: one iteration of the polling loop up to its branch.
poll ==
    /\ sPc = "poll"
    /\ \E fault \in BOOLEAN :
        IF fault
        THEN /\ faults' = faults + 1
             /\ AttemptRaises
             /\ UNCHANGED <<creatingSeen, badSeen, results>>
        ELSE /\ UNCHANGED faults
             /\ streamStatus = "CREATING" => creatingSeen < MaxPolls
             /\ creatingSeen' = IF streamStatus = "CREATING" THEN creatingSeen + 1
                                                             ELSE creatingSeen
             /\ CASE PollVerdict(streamStatus) = "break" ->
                        /\ ReturnNormally("poll", creatingSeen')
                        /\ UNCHANGED <<raises, badSeen>>
                  [] PollVerdict(streamStatus) = "sleep" ->
                        /\ sPc' = "sleep"
                        /\ UNCHANGED <<raises, badSeen, results>>
                  [] OTHER ->
                        /\ badSeen' = TRUE
                        /\ AttemptRaises
                        /\ UNCHANGED results
    /\ UNCHANGED <<streamStatus, callNo, tries, creates, created, callCreates,
                   sleeps, notStream>>

\* Lines 57-58: time.sleep(10); continue.
sleep ==
    /\ sPc = "sleep"
    /\ sleeps' = Append(sleeps, SleepSeconds)
    /\ sPc' = "poll"
    /\ UNCHANGED <<streamStatus, callNo, tries, raises, creates, created, callCreates,
                   creatingSeen, faults, badSeen, results, notStream>>

\* The decorator of lines 21-23: after an attempt raised, either wait and
\* run the body again or, at max_tries, let the exception reach the caller.
on_exception ==
    /\ sPc = "failed"
    /\ IF GiveUp(tries)
       THEN /\ sPc' = "idle"
            /\ results' = Append(results, CallRecord(FALSE, "raise", creatingSeen))
            /\ UNCHANGED tries
       ELSE /\ tries' = tries + 1
            /\ sPc' = "probe"
            /\ UNCHANGED results
    /\ UNCHANGED <<streamStatus, callNo, raises, creates, created, callCreates,
                   sleeps, creatingSeen, faults, badSeen, notStream>>

\* The provider finishes creating the stream.
ProviderActivates ==
    /\ streamStatus = "CREATING"
    /\ streamStatus' = "ACTIVE"
    /\ UNCHANGED <<sPc, callNo, tries, raises, creates, created, callCreates,
                   sleeps, creatingSeen, faults, badSeen, results, notStream>>

\* The provider fails to create the stream.
ProviderFailsCreation ==
    /\ streamStatus = "CREATING"
    /\ streamStatus' = "CREATING_FAILED"
    /\ UNCHANGED <<sPc, callNo, tries, raises, creates, created, callCreates,
                   sleeps, creatingSeen, faults, badSeen, results, notStream>>

StreamNext ==
    \/ initialize
    \/ exists_probe
    \/ create_delivery_stream
    \/ poll
    \/ sleep
    \/ on_exception
    \/ ProviderActivates
    \/ ProviderFailsCreation

(***************************************************************************)
(* Stream.from_records.                                                    *)
(***************************************************************************)
Min(a, b) == IF a < b THEN a ELSE b

\* How many further items islice(iterator, size - 1) may take after `first`.
SliceLen_whole_size(size) == size

SliceLen(size) == size - 1

\* Stream._chunks: the next chunk the generator yields when the iterator has
\* produced p items: chain([first], islice(iterator, size - 1)), consumed whole
\* by the list comprehension of from_records before the next chunk is asked for.
NextChunk(recs, p, size) ==
    <<recs[p + 1]>> \o SubSeq(recs, p + 2, Min(p + 1 + SliceLen(size), Len(recs)))

\* joblib's pre_dispatch='2*n_jobs': how many tasks may be built and not yet
\* finished; with n_jobs = 1 the tasks run one by one in the calling thread.
PreDispatch(n) == IF n = 1 THEN 1 ELSE 2 * n

Running == {i \in 1..Len(tasks) : taskState[i] = "running"}
Queued == {i \in 1..Len(tasks) : taskState[i] = "queued"}
Failed == {i \in 1..Len(tasks) : taskState[i] = "failed"}
Done == {i \in 1..Len(tasks) : taskState[i] = "done"}

\* A pool of n_jobs threads runs at most n_jobs tasks at a time.
FreeWorker_unbounded(running, n) == TRUE

FreeWorker(running, n) == running < n

\* Parallel(...)(...) returns once the generator is exhausted and every task
\* it built has finished.
AllComplete(p, n, states) == p = n /\ \A i \in 1..Len(states) : states[i] = "done"

RecIdle ==
    /\ records = <<>>
    /\ threads = 1
    /\ pos = 0
    /\ tasks = <<>>
    /\ taskState = <<>>
    /\ putCalls = <<>>
    /\ aborting = FALSE
    /\ frResult = "idle"

\* from_records is called with a finite sequence and a positive thread count.
RecInit ==
    /\ \E n \in 0..MaxRecords : records = [i \in 1..n |-> i]
    /\ threads \in 1..MaxThreads
    /\ pos = 0
    /\ tasks = <<>>
    /\ taskState = <<>>
    /\ putCalls = <<>>
    /\ aborting = FALSE
    /\ frResult = "running"

\* The pool asks the generator of lines 95-98 for its next task: _chunks
\* yields a chunk and the Records list is built from it.
dispatch ==
    /\ frResult = "running"
    /\ ~aborting
    /\ pos < Len(records)
    /\ Cardinality(Queued \cup Running) < PreDispatch(threads)
    /\ LET chunk == NextChunk(records, pos, ChunkSize) IN
        /\ tasks' = Append(tasks, chunk)
        /\ pos' = pos + Len(chunk)
    /\ taskState' = Append(taskState, "queued")
    /\ putCalls' = Append(putCalls, 0)
    /\ UNCHANGED <<records, threads, aborting, frResult, notRec>>

\* A free worker takes the oldest queued task and issues its put_record_batch.
put_record_batch ==
    /\ ~aborting
    /\ Queued # {}
    /\ FreeWorker(Cardinality(Running), threads)
    /\ LET i == CHOOSE q \in Queued : \A r \in Queued : q <= r IN
        /\ taskState' = [taskState EXCEPT ![i] = "running"]
        /\ putCalls' = [putCalls EXCEPT ![i] = @ + 1]
    /\ UNCHANGED <<records, threads, pos, tasks, aborting, frResult, notRec>>

\* The provider answers a put_record_batch request.
put_returns ==
    /\ \E i \in Running : taskState' = [taskState EXCEPT ![i] = "done"]
    /\ UNCHANGED <<records, threads, pos, tasks, putCalls, aborting, frResult, notRec>>

\* A put_record_batch request raises: the pool stops dispatching.
put_raises ==
    /\ \E i \in Running : taskState' = [taskState EXCEPT ![i] = "failed"]
    /\ aborting' = TRUE
    /\ UNCHANGED <<records, threads, pos, tasks, putCalls, frResult, notRec>>

\* Line 100: Parallel returned, from_records returns.
from_records_returns ==
    /\ frResult = "running"
    /\ ~aborting
    /\ AllComplete(pos, Len(records), taskState)
    /\ frResult' = "ok"
    /\ UNCHANGED <<records, threads, pos, tasks, taskState, putCalls, aborting, notRec>>

\* Parallel re-raises the exception of a failed task in the caller.
from_records_raises ==
    /\ frResult = "running"
    /\ Failed # {}
    /\ frResult' = "raised"
    /\ UNCHANGED <<records, threads, pos, tasks, taskState, putCalls, aborting, notRec>>

RecNext ==
    \/ dispatch
    \/ put_record_batch
    \/ put_returns
    \/ put_raises
    \/ from_records_returns
    \/ from_records_raises

(***************************************************************************)
(* Database.create_crawler and Database.update_tables.                     *)
(***************************************************************************)
CrawlerNames == {"events", "orders"}
NoCrawler == <<>>     \* the catalog holds <<settings>> under a name, or nothing
Schedules == {None, "cron(0 12 * * ? *)"}
TablePrefixes == {"", "raw_"}
UpdateBehaviors == {"UPDATE_IN_DATABASE", "LOG"}
DeleteBehaviors == {"DELETE_FROM_DATABASE"}
WaitChoices == {0, 60}
RunStatuses == {"SUCCEEDED", "FAILED", "CANCELLED"}

\* Lines 140-159: the create_crawler payload; Schedule is set only when given.
Payload(name, schedule, table_prefix, update_behavior, delete_behavior) ==
    [Name |-> name,
     TablePrefix |-> table_prefix,
     SchemaChangePolicy |-> [UpdateBehavior |-> update_behavior,
                             DeleteBehavior |-> delete_behavior],
     Schedule |-> IF schedule # None THEN schedule ELSE None]

\* Lines 160-164: what the catalog holds under the name after the call.  The
\* provider stores the payload of a new name and answers AlreadyExistsException
\* for a name it holds; the except branch only looks the crawler up.
AfterCreate_overwrite(stored, payload) == <<payload>>

AfterCreate(stored, payload) == IF stored = NoCrawler THEN <<payload>> ELSE stored

\* Lines 186-200: the branch of the polling loop for one crawler state.
PollBranch_running_only(state) == IF state = "RUNNING" THEN "sleep" ELSE "return"

PollBranch(state) ==
    IF state = "RUNNING" THEN "sleep"
    ELSE IF state = "STOPPING" THEN "sleep"
    ELSE "return"

CrawlIdle ==
    /\ crawlers = [n \in CrawlerNames |-> NoCrawler]
    /\ crawlerState = [n \in CrawlerNames |-> "READY"]
    /\ lastCrawl = [n \in CrawlerNames |-> None]
    /\ runs = [n \in CrawlerNames |-> 0]
    /\ lastCrawlRun = [n \in CrawlerNames |-> 0]
    /\ createRequests = [n \in CrawlerNames |-> 0]
    /\ ccLog = <<>>
    /\ uPc = "idle"
    /\ uName = None
    /\ uWait = 0
    /\ uPolls = 0
    /\ uSleeps = <<>>
    /\ uSeen = None
    /\ uRun = 0
    /\ uLog = <<>>

\* What the provider and the caller of update_tables hold before the first
\* call: no crawler has run.
NoRunYet ==
    /\ crawlerState = [n \in CrawlerNames |-> "READY"]
    /\ lastCrawl = [n \in CrawlerNames |-> None]
    /\ runs = [n \in CrawlerNames |-> 0]
    /\ lastCrawlRun = [n \in CrawlerNames |-> 0]
    /\ createRequests = [n \in CrawlerNames |-> 0]
    /\ ccLog = <<>>
    /\ uPc = "idle"
    /\ uName = None
    /\ uWait = 0
    /\ uPolls = 0
    /\ uSleeps = <<>>
    /\ uSeen = None
    /\ uRun = 0
    /\ uLog = <<>>

\* A catalog in which some of the crawlers were created before, with the
\* default arguments of create_crawler and no schedule, and have not run yet.
CrawlRunInit ==
    /\ \E existing \in SUBSET CrawlerNames :
          crawlers = [n \in CrawlerNames |->
                        IF n \in existing
                        THEN <<Payload(n, None, "", "UPDATE_IN_DATABASE",
                                       "DELETE_FROM_DATABASE")>>
                        ELSE NoCrawler]
    /\ NoRunYet

\* A catalog in which some of the crawlers were created before, with or
\* without a schedule (line 158), and have not run yet.
ScheduledRunInit ==
    /\ \E existing \in SUBSET CrawlerNames, scheduled \in SUBSET CrawlerNames :
          /\ scheduled \subseteq existing
          /\ crawlers = [n \in CrawlerNames |->
                          IF n \in existing
                          THEN <<Payload(n, IF n \in scheduled THEN "cron(0 12 * * ? *)"
                                                               ELSE None,
                                         "", "UPDATE_IN_DATABASE", "DELETE_FROM_DATABASE")>>
                          ELSE NoCrawler]
    /\ NoRunYet

\* Database.create_crawler, lines 138-164: the create request, then the
\* get_crawler lookup of either branch, whose Name is returned.
create_crawler ==
    /\ Len(ccLog) < MaxCreateCalls
    /\ \E name \in CrawlerNames, schedule \in Schedules, table_prefix \in TablePrefixes,
          update_behavior \in UpdateBehaviors, delete_behavior \in DeleteBehaviors :
        LET payload == Payload(name, schedule, table_prefix, update_behavior,
                               delete_behavior)
            after == AfterCreate(crawlers[name], payload)
        IN  /\ createRequests' = [createRequests EXCEPT ![name] = @ + 1]
            /\ crawlers' = [crawlers EXCEPT ![name] = after]
            /\ ccLog' = Append(ccLog,
                    [name |-> name, payload |-> payload,
                     outcome |-> IF crawlers[name] = NoCrawler THEN "created"
                                                               ELSE "AlreadyExists",
                     returned |-> after[1].Name, stored |-> after[1]])
    /\ UNCHANGED <<crawlerState, lastCrawl, runs, lastCrawlRun, uPc, uName, uWait,
                   uPolls, uSleeps, uSeen, uRun, uLog, notCrawl>>

\* Lines 176-181: update_tables is called and sends start_crawler.  The
\* provider raises for an unknown crawler and for one that is not READY.
start_crawler ==
    /\ uPc = "idle"
    /\ Len(uLog) < MaxRuns
    /\ \E name \in CrawlerNames, wait \in WaitChoices :
        /\ uName' = name
        /\ uWait' = wait
        /\ uPolls' = 0
        /\ uSleeps' = <<>>
        /\ uSeen' = None
        /\ IF crawlers[name] = NoCrawler \/ crawlerState[name] # "READY"
           THEN /\ uLog' = Append(uLog,
                        [name |-> name, wait |-> wait, outcome |-> "raised_at_start",
                         status |-> None, polls |-> 0, sleeps |-> <<>>, seen |-> None,
                         run |-> 0, statusRun |-> 0])
                /\ uRun' = 0
                /\ UNCHANGED <<uPc, crawlerState, runs>>
           ELSE /\ crawlerState' = [crawlerState EXCEPT ![name] = "RUNNING"]
                /\ runs' = [runs EXCEPT ![name] = @ + 1]
                /\ uRun' = runs[name] + 1
                /\ IF wait = 0
                   THEN /\ uLog' = Append(uLog,
                                [name |-> name, wait |-> wait, outcome |-> "returned",
                                 status |-> None, polls |-> 0, sleeps |-> <<>>,
                                 seen |-> None, run |-> runs[name] + 1, statusRun |-> 0])
                        /\ UNCHANGED uPc
                   ELSE uPc' = "poll" /\ UNCHANGED uLog
    /\ UNCHANGED <<crawlers, lastCrawl, lastCrawlRun, createRequests, ccLog, notCrawl>>

\* Lines 184-200: one get_crawler request and the branch on its State.
\* CrawlElapsedTime is read for the log line only.  Reading LastCrawl of a
\* crawler that never ran raises KeyError.
get_crawler ==
    /\ uPc = "poll"
    /\ PollBranch(crawlerState[uName]) = "sleep" => Len(uSleeps) < MaxPolls
    /\ uPolls' = uPolls + 1
    /\ uSeen' = crawlerState[uName]
    /\ IF PollBranch(crawlerState[uName]) = "sleep"
       THEN uPc' = "sleep" /\ UNCHANGED uLog
       ELSE /\ uPc' = "idle"
            /\ uLog' = Append(uLog,
                    [name |-> uName, wait |-> uWait,
                     outcome |-> IF lastCrawl[uName] = None THEN "raised_KeyError"
                                                            ELSE "returned",
                     status |-> lastCrawl[uName], polls |-> uPolls + 1,
                     sleeps |-> uSleeps, seen |-> crawlerState[uName],
                     run |-> uRun, statusRun |-> lastCrawlRun[uName]])
    /\ UNCHANGED <<crawlers, crawlerState, lastCrawl, runs, lastCrawlRun,
                   createRequests, ccLog, uName, uWait, uSleeps, uRun, notCrawl>>

\* Lines 189-190 and 194-195: time.sleep(wait); continue.
sleep_wait ==
    /\ uPc = "sleep"
    /\ uSleeps' = Append(uSleeps, uWait)
    /\ uPc' = "poll"
    /\ UNCHANGED <<crawlers, crawlerState, lastCrawl, runs, lastCrawlRun,
                   createRequests, ccLog, uName, uWait, uPolls, uSeen, uRun, uLog,
                   notCrawl>>

\* The provider: a running crawler begins to stop.
CrawlerStopping ==
    /\ \E n \in CrawlerNames :
        /\ crawlerState[n] = "RUNNING"
        /\ crawlerState' = [crawlerState EXCEPT ![n] = "STOPPING"]
    /\ UNCHANGED <<crawlers, lastCrawl, runs, lastCrawlRun, createRequests, ccLog,
                   uPc, uName, uWait, uPolls, uSleeps, uSeen, uRun, uLog, notCrawl>>

\* The provider: a run ends, the crawler is READY again with a last-run status.
CrawlerReady ==
    /\ \E n \in CrawlerNames, status \in RunStatuses :
        /\ crawlerState[n] \in {"RUNNING", "STOPPING"}
        /\ crawlerState' = [crawlerState EXCEPT ![n] = "READY"]
        /\ lastCrawl' = [lastCrawl EXCEPT ![n] = status]
        /\ lastCrawlRun' = [lastCrawlRun EXCEPT ![n] = runs[n]]
    /\ UNCHANGED <<crawlers, runs, createRequests, ccLog, uPc, uName, uWait,
                   uPolls, uSleeps, uSeen, uRun, uLog, notCrawl>>

\* The provider: the Schedule of a crawler (lines 158-159) starts a run of
\* its own when the crawler is READY.
ScheduledStart ==
    /\ \E n \in CrawlerNames :
        /\ crawlers[n] # NoCrawler
        /\ crawlers[n][1].Schedule # None
        /\ crawlerState[n] = "READY"
        /\ runs[n] < MaxCrawlRuns
        /\ crawlerState' = [crawlerState EXCEPT ![n] = "RUNNING"]
        /\ runs' = [runs EXCEPT ![n] = @ + 1]
    /\ UNCHANGED <<crawlers, lastCrawl, lastCrawlRun, createRequests, ccLog,
                   uPc, uName, uWait, uPolls, uSleeps, uSeen, uRun, uLog, notCrawl>>

CreateCrawlerNext == create_crawler

CrawlNext ==
    \/ start_crawler
    \/ get_crawler
    \/ sleep_wait
    \/ CrawlerStopping
    \/ CrawlerReady

\* update_tables on crawlers some of which have a schedule.
ScheduledNext ==
    \/ start_crawler
    \/ get_crawler
    \/ sleep_wait
    \/ CrawlerStopping
    \/ CrawlerReady
    \/ ScheduledStart

(***************************************************************************)
(* Table.get_versions.                                                     *)
(***************************************************************************)
\* The catalog's answer to get_table_versions: the versions after the
\* offset the token stands for (None: from the start), at most one page of
\* them, and a NextToken only when more versions follow.  A response without
\* further pages has no NextToken key.
\* A token is <<offset>>; a payload or a response without one has NoToken.
NoToken == <<>>

PageLen == Min(MaxResults, tvPageSize)

PageOffset(token) == IF token = NoToken THEN 0 ELSE token[1]

TableVersions(token) ==
    [i \in 1..(Min(PageOffset(token) + PageLen, tvCount) - PageOffset(token))
        |-> PageOffset(token) + i]

HasNextToken(token) == PageOffset(token) + PageLen < tvCount

NextToken(token) == <<PageOffset(token) + PageLen>>

TableIdle ==
    /\ tvCount = 0
    /\ tvPageSize = 1
    /\ gvPc = "idle"
    /\ payloadToken = NoToken
    /\ gvRequests = <<>>
    /\ versions = <<>>
    /\ gvResult = None

\* Line 57: get_versions is called on a table with any number of versions.
TableInit ==
    /\ tvCount \in 0..MaxVersions
    /\ tvPageSize \in 1..MaxPageSize
    /\ gvPc = "payload"
    /\ payloadToken = NoToken
    /\ gvRequests = <<>>
    /\ versions = <<>>
    /\ gvResult = None

\* Lines 58-63: the top of the loop body builds `payload` anew, without a
\* NextToken entry.
build_payload ==
    /\ gvPc = "payload"
    /\ Len(gvRequests) < MaxRequests
    /\ payloadToken' = NoToken
    /\ gvPc' = "request"
    /\ UNCHANGED <<tvCount, tvPageSize, gvRequests, versions, gvResult, notTable>>

\* Lines 64-69: the request and the handling of its response.
get_table_versions ==
    /\ gvPc = "request"
    /\ gvRequests' = Append(gvRequests, payloadToken)
    /\ IF TableVersions(payloadToken) = <<>>
       THEN \* line 66: break, line 71: return versions
            /\ gvPc' = "idle"
            /\ gvResult' = "returned"
            /\ UNCHANGED <<payloadToken, versions>>
       ELSE IF ~HasNextToken(payloadToken)
       THEN \* line 67: response['NextToken'] on a response without the key
            /\ gvPc' = "idle"
            /\ gvResult' = "KeyError"
            /\ UNCHANGED <<payloadToken, versions>>
       ELSE \* lines 68-69, then the next iteration
            /\ payloadToken' = NextToken(payloadToken)
            /\ versions' = versions \o TableVersions(payloadToken)
            /\ gvPc' = "payload"
            /\ UNCHANGED gvResult
    /\ UNCHANGED <<tvCount, tvPageSize, notTable>>

VersionsNext ==
    \/ build_payload
    \/ get_table_versions

(***************************************************************************)
(* Database.__init__, with create_cheapodb_role (utils.py) and create.     *)
(***************************************************************************)
ArnArguments == {None, "", "arn:aws:iam::123456789012:role/supplied"}
CreatedArn == "arn:aws:iam::123456789012:role/service-role/db-CheapoDBExecutionRole"

\* Python truthiness of an ARN argument: None and the empty string are false.
Truthy(arn) == arn # None /\ arn # ""

\* Line 46: `if create_iam_role and not self.iam_role_arn`.
MustCreateRole(create_iam_role, arn) == create_iam_role /\ ~Truthy(arn)

\* Line 54: `elif not create_iam_role and not self.iam_role_arn`.
MissingRole_none_only(create_iam_role, arn) == ~create_iam_role /\ arn = None

MissingRole(create_iam_role, arn) == ~create_iam_role /\ ~Truthy(arn)

DbIdle ==
    /\ argArn = None
    /\ argCreateRole = FALSE
    /\ argAutoCreate = FALSE
    /\ iam_role_arn = None
    /\ dPc = "idle"
    /\ dCalls = <<>>
    /\ dError = None
    /\ roleExists = FALSE
    /\ roleExisted = FALSE
    /\ rolePolicies = {}
    /\ bucketExists = FALSE
    /\ catalogExists = FALSE

\* Database(...) is about to be constructed, with any arguments, in an
\* account where the role, the bucket and the catalog database may exist.
DbInit ==
    /\ argArn \in ArnArguments
    /\ argCreateRole \in BOOLEAN
    /\ argAutoCreate \in BOOLEAN
    /\ iam_role_arn = None
    /\ dPc = "new"
    /\ dCalls = <<>>
    /\ dError = None
    /\ roleExists \in BOOLEAN
    /\ roleExisted = roleExists
    /\ rolePolicies = {}
    /\ bucketExists \in BOOLEAN
    /\ catalogExists \in BOOLEAN

Raise(error) ==
    /\ dPc' = "raised"
    /\ dError' = error

\* Lines 30-57: the fields are set and the role is resolved.
Database_init ==
    /\ dPc = "new"
    /\ iam_role_arn' = argArn
    /\ IF MustCreateRole(argCreateRole, argArn)
       THEN dPc' = "get_caller_identity" /\ UNCHANGED dError
       ELSE IF MissingRole(argCreateRole, argArn)
       THEN Raise("CheapoDBException")
       ELSE dPc' = "auto_create" /\ UNCHANGED dError
    /\ UNCHANGED <<argArn, argCreateRole, argAutoCreate, roleExisted, dCalls, roleExists,
                   rolePolicies, bucketExists, catalogExists, notDb>>

\* Line 51: the account id, an argument of create_cheapodb_role.
get_caller_identity ==
    /\ dPc = "get_caller_identity"
    /\ dCalls' = Append(dCalls, "get_caller_identity")
    /\ \E fault \in BOOLEAN :
        IF fault THEN Raise("ProviderError")
                 ELSE dPc' = "create_role" /\ UNCHANGED dError
    /\ UNCHANGED <<argArn, argCreateRole, argAutoCreate, roleExisted, iam_role_arn, roleExists,
                   rolePolicies, bucketExists, catalogExists, notDb>>

\* utils.py lines 33 and 111-114: what create_cheapodb_role does with the
\* answer of create_role; EntityAlreadyExistsException becomes
\* CheapoDBException, any other answer lets the function go on.
RoleOutcome_reuse(alreadyExists) == "created"

RoleOutcome(alreadyExists) ==
    IF alreadyExists THEN "CheapoDBException" ELSE "created"

\* utils.py lines 34-65 and 111-114: create_role; a role that exists is
\* reported as CheapoDBException.
create_role ==
    /\ dPc = "create_role"
    /\ dCalls' = Append(dCalls, "create_role")
    /\ \E fault \in BOOLEAN :
        IF fault THEN Raise("ProviderError") /\ UNCHANGED roleExists
        ELSE IF RoleOutcome(roleExists) = "CheapoDBException"
        THEN Raise("CheapoDBException") /\ UNCHANGED roleExists
        ELSE /\ roleExists' = TRUE
             /\ dPc' = "attach_role_policy"
             /\ UNCHANGED dError
    /\ UNCHANGED <<argArn, argCreateRole, argAutoCreate, roleExisted, iam_role_arn,
                   rolePolicies, bucketExists, catalogExists, notDb>>

\* utils.py lines 67-71.
attach_role_policy ==
    /\ dPc = "attach_role_policy"
    /\ dCalls' = Append(dCalls, "attach_role_policy")
    /\ \E fault \in BOOLEAN :
        IF fault THEN Raise("ProviderError") /\ UNCHANGED rolePolicies
        ELSE /\ rolePolicies' = rolePolicies \cup {"AWSGlueServiceRole"}
             /\ dPc' = "put_role_policy"
             /\ UNCHANGED dError
    /\ UNCHANGED <<argArn, argCreateRole, argAutoCreate, roleExisted, iam_role_arn, roleExists,
                   bucketExists, catalogExists, notDb>>

\* utils.py lines 73-110 and 116, database.py line 47: the inline policy is
\* put, the ARN of the created role is returned and kept.
put_role_policy ==
    /\ dPc = "put_role_policy"
    /\ dCalls' = Append(dCalls, "put_role_policy")
    /\ \E fault \in BOOLEAN :
        IF fault THEN Raise("ProviderError") /\ UNCHANGED <<rolePolicies, iam_role_arn>>
        ELSE /\ rolePolicies' = rolePolicies \cup {"CheapoDBRolePolicy"}
             /\ iam_role_arn' = CreatedArn
             /\ dPc' = "auto_create"
             /\ UNCHANGED dError
    /\ UNCHANGED <<argArn, argCreateRole, argAutoCreate, roleExisted, roleExists,
                   bucketExists, catalogExists, notDb>>

\* Lines 59-60: `if self.auto_create: self.create()`.
auto_create ==
    /\ dPc = "auto_create"
    /\ dPc' = IF argAutoCreate THEN "bucket_create" ELSE "constructed"
    /\ UNCHANGED <<argArn, argCreateRole, argAutoCreate, roleExisted, iam_role_arn, dCalls, dError,
                   roleExists, rolePolicies, bucketExists, catalogExists, notDb>>

\* Lines 70-76: the bucket is created; no existence check comes before it.
bucket_create ==
    /\ dPc = "bucket_create"
    /\ dCalls' = Append(dCalls, "bucket.create")
    /\ \E fault \in BOOLEAN :
        IF fault \/ bucketExists THEN Raise("ProviderError") /\ UNCHANGED bucketExists
        ELSE /\ bucketExists' = TRUE
             /\ dPc' = "create_database"
             /\ UNCHANGED dError
    /\ UNCHANGED <<argArn, argCreateRole, argAutoCreate, roleExisted, iam_role_arn, roleExists,
                   rolePolicies, catalogExists, notDb>>

\* Lines 78-86: the catalog database is created.
create_database ==
    /\ dPc = "create_database"
    /\ dCalls' = Append(dCalls, "create_database")
    /\ \E fault \in BOOLEAN :
        IF fault \/ catalogExists THEN Raise("ProviderError") /\ UNCHANGED catalogExists
        ELSE /\ catalogExists' = TRUE
             /\ dPc' = "constructed"
             /\ UNCHANGED dError
    /\ UNCHANGED <<argArn, argCreateRole, argAutoCreate, roleExisted, iam_role_arn, roleExists,
                   rolePolicies, bucketExists, notDb>>

DbNext ==
    \/ Database_init
    \/ get_caller_identity
    \/ create_role
    \/ attach_role_policy
    \/ put_role_policy
    \/ auto_create
    \/ bucket_create
    \/ create_database

(***************************************************************************)
(* Table.delete_table and Table.describe, for the table Table(db, "events", *)
(* "raw"), with the bucket and the catalog database they act on.           *)
(***************************************************************************)
\* table.py line 150: d = f'{self.prefix}/{self.name}', the Prefix of the
\* listing.
DataPrefix == "raw/events"

\* The keys of the bucket.  S3 matches Prefix against the start of the key:
\* the first two keys are data of the table, the third is data of the table
\* "events_2019" and starts with DataPrefix as well, the last does not.
ObjectKeys == {"raw/events/events", "raw/events_2019/events_2019", "raw/orders/orders"}

\* Whether a key starts with DataPrefix.
UnderPrefix(key) == key \in {"raw/events/events", "raw/events_2019/events_2019"}

\* table.py lines 81-84: describe() asks get_table for Name=self.name.
describe_Name == "events"

\* table.py lines 168-171: delete_table asks glue.delete_table for
\* Name=f'{self.prefix}_{self.name}'.
delete_table_Name == "raw_events"

CatalogNames == {describe_Name, delete_table_Name}

\* database.py line 41: self.s3 = self.session.resource('s3').
S3Handle == "resource"

\* list_object_versions and delete_object are operations of the S3 client;
\* the S3 service resource has no attribute of either name, and the lookup
\* on it raises AttributeError.
HasOperation(handle, operation) == handle = "client"

\* The Versions of a list_object_versions response for Prefix=DataPrefix.
Listed == {o \in objects : UnderPrefix(o[1])}

DelIdle ==
    /\ objects = {}
    /\ objectsBefore = {}
    /\ catalogTables = {}
    /\ include_data = FALSE
    /\ delPc = "idle"
    /\ delCalls = <<>>
    /\ delError = None

\* delete_table is about to be called, with either argument, on a bucket
\* holding any versions of the keys and a catalog holding any of the names.
DelInit ==
    /\ objects \in SUBSET (ObjectKeys \X (1..MaxObjectVersions))
    /\ objectsBefore = objects
    /\ catalogTables \in SUBSET CatalogNames
    /\ include_data \in BOOLEAN
    /\ delPc = "new"
    /\ delCalls = <<>>
    /\ delError = None

\* Lines 149-165, the branch `if include_data`.  self.db.s3 is the service
\* resource, so the attribute lookup of line 153 raises AttributeError, which
\* `except KeyError` does not catch.  On a handle that has the operations:
\* a response without the key Versions raises KeyError, which is logged;
\* otherwise every listed version is deleted.
delete_data ==
    /\ delPc = "new"
    /\ include_data
    /\ IF ~HasOperation(S3Handle, "list_object_versions")
       THEN /\ delPc' = "raised"
            /\ delError' = "AttributeError"
            /\ UNCHANGED <<objects, delCalls>>
       ELSE /\ delCalls' = delCalls \o <<"list_object_versions">>
                              \o [k \in 1..Cardinality(Listed) |-> "delete_object"]
            /\ objects' = objects \ Listed
            /\ delPc' = "delete_table"
            /\ UNCHANGED delError
    /\ UNCHANGED <<objectsBefore, catalogTables, include_data, notDel>>

\* Lines 166-176: the catalog entry named delete_table_Name is deleted;
\* EntityNotFoundException is logged; any other error propagates.
glue_delete_table ==
    /\ \/ delPc = "delete_table"
       \/ delPc = "new" /\ ~include_data
    /\ delCalls' = Append(delCalls, "delete_table")
    /\ \E fault \in BOOLEAN :
        IF fault
        THEN /\ delPc' = "raised"
             /\ delError' = "ProviderError"
             /\ UNCHANGED catalogTables
        ELSE /\ catalogTables' = catalogTables \ {delete_table_Name}
             /\ delPc' = "returned"
             /\ UNCHANGED delError
    /\ UNCHANGED <<objects, objectsBefore, include_data, notDel>>

DeleteNext ==
    \/ delete_data
    \/ glue_delete_table

(***************************************************************************)
(* Specifications.                                                         *)
(***************************************************************************)
InitDelete == DelInit /\ StreamIdle /\ RecIdle /\ CrawlIdle /\ TableIdle /\ DbIdle

SpecDelete == InitDelete /\ [][DeleteNext]_vars

InitStream == StreamIdle /\ RecIdle /\ CrawlIdle /\ TableIdle /\ DbIdle /\ DelIdle

InitCreateCrawler == CrawlIdle /\ StreamIdle /\ RecIdle /\ TableIdle /\ DbIdle /\ DelIdle

SpecCreateCrawler == InitCreateCrawler /\ [][CreateCrawlerNext]_vars

InitCrawler == CrawlRunInit /\ StreamIdle /\ RecIdle /\ TableIdle /\ DbIdle /\ DelIdle

\* The caller of update_tables keeps running: its polls and sleeps are taken.
SpecCrawler ==
    InitCrawler /\ [][CrawlNext]_vars /\ WF_vars(get_crawler) /\ WF_vars(sleep_wait)

InitScheduled ==
    ScheduledRunInit /\ StreamIdle /\ RecIdle /\ TableIdle /\ DbIdle /\ DelIdle

SpecScheduled ==
    InitScheduled /\ [][ScheduledNext]_vars /\ WF_vars(get_crawler) /\ WF_vars(sleep_wait)

SpecStream == InitStream /\ [][StreamNext]_vars

InitRecords == RecInit /\ StreamIdle /\ CrawlIdle /\ TableIdle /\ DbIdle /\ DelIdle

InitVersions == TableInit /\ StreamIdle /\ RecIdle /\ CrawlIdle /\ DbIdle /\ DelIdle

SpecVersions == InitVersions /\ [][VersionsNext]_vars

InitDatabase == DbInit /\ StreamIdle /\ RecIdle /\ CrawlIdle /\ TableIdle /\ DelIdle

SpecDatabase == InitDatabase /\ [][DbNext]_vars

SpecRecords == InitRecords /\ [][RecNext]_vars

(***************************************************************************)
(* Claims about Stream.initialize, checked under SpecStream.               *)
(***************************************************************************)
FinishedCalls == 1..Len(results)

\* C1, as stated: after two consecutive calls of initialize that both
\* returned, starting without the stream, the provider has received exactly
\* one create_delivery_stream call, and the second call issued none.
C1_ExactlyOneCreateCall ==
    (Len(results) = 2 /\ results[1].ok /\ results[2].ok)
        => creates = 1 /\ results[2].creates = 0

\* C1, amended: the provider creates the stream at most once; a call of
\* initialize made after one that returned normally issues no create call;
\* and when no provider request raised a transient error, two finished calls
\* have sent exactly one create call in total.
C1_CreateAtMostOnce ==
    /\ created <= 1
    /\ \A i \in FinishedCalls : \A j \in FinishedCalls :
          (i < j /\ results[i].ok) => results[j].creates = 0
    /\ (sPc # "idle" /\ \E i \in FinishedCalls : results[i].ok) => callCreates = 0
    /\ (Len(results) = 2 /\ results[1].faults = 0 /\ results[2].faults = 0)
          => creates = 1 /\ results[1].creates = 1

\* C1 witness: two calls returned normally, the first one created the
\* stream after a create request that raised, the second found it by the probe.
C1_Witness ==
    /\ Len(results) = 2
    /\ results[1].ok /\ results[1].creates = 2
    /\ results[2].ok /\ results[2].via = "probe" /\ results[2].creates = 0
    /\ created = 1

\* C2, as stated: a call of initialize whose poll saw a status other than
\* ACTIVE or CREATING does not return normally.
C2_BadStatusNeverReturnsNormally ==
    \A i \in FinishedCalls : results[i].badSeen => ~results[i].ok

\* C3: a call of initialize that returns from the polling loop has slept
\* exactly once per CREATING response (k sleeps for k CREATING responses
\* followed by ACTIVE), and when no request raised it did so in its first
\* attempt with exactly one create call.
C3_SleepsEqualCreatingResponses ==
    /\ \A i \in FinishedCalls :
          results[i].via = "poll" =>
              /\ results[i].ok
              /\ Len(results[i].sleeps) = results[i].creatingSeen
              /\ \A k \in 1..Len(results[i].sleeps) : results[i].sleeps[k] = SleepSeconds
              /\ results[i].faults = 0 =>
                    results[i].creates = 1 /\ results[i].tries = 1
    /\ sPc = "poll" => Len(sleeps) = creatingSeen
    /\ sPc = "sleep" => Len(sleeps) + 1 = creatingSeen

\* C3 witness: the spec's case, CREATING twice and then ACTIVE.
C3_Witness ==
    \E i \in FinishedCalls :
        /\ results[i].via = "poll" /\ results[i].faults = 0
        /\ results[i].creatingSeen = 2 /\ results[i].sleeps = <<SleepSeconds, SleepSeconds>>
        /\ results[i].creates = 1

\* C4: one call of initialize runs its body at most max_tries = 8 times;
\* every attempt that raised before the 8th is followed by another attempt,
\* the attempt that returns normally is the last one, and a call raises to
\* its caller only when the 8th attempt raised.
C4_BoundedRetry ==
    /\ tries <= max_tries
    /\ raises <= tries
    /\ sPc \in {"probe", "create", "poll", "sleep"} => raises = tries - 1
    /\ sPc = "failed" => raises = tries
    /\ \A i \in FinishedCalls :
          /\ results[i].tries \in 1..max_tries
          /\ results[i].ok => results[i].raises = results[i].tries - 1
          /\ ~results[i].ok => results[i].raises = max_tries /\ results[i].tries = max_tries

\* C4 witness: a call gave up after 8 raising attempts, and a call
\* returned normally from its 8th attempt.
C4_Witness ==
    /\ Len(results) = 2
    /\ ~results[1].ok /\ results[1].raises = 8
    /\ results[2].ok /\ results[2].tries = 8

(***************************************************************************)
(* Claims about Stream.from_records, checked under SpecRecords.            *)
(***************************************************************************)
RECURSIVE Flatten(_)
Flatten(seqs) == IF seqs = <<>> THEN <<>> ELSE Head(seqs) \o Flatten(Tail(seqs))

RECURSIVE Sum(_)
Sum(ns) == IF ns = <<>> THEN 0 ELSE Head(ns) + Sum(Tail(ns))

Ceil(n, d) == (n + d - 1) \div d

\* C5: the batches built from the first `pos` records are ceil(pos/500) in
\* number, each holds between 1 and 500 records, and concatenated in the
\* order they were built they are exactly those records in source order;
\* when from_records returns, the whole input of length N has been sent in
\* exactly ceil(N/500) put_record_batch calls, one per batch.
C5_Chunking ==
    /\ \A i \in 1..Len(tasks) : Len(tasks[i]) \in 1..ChunkSize
    /\ Flatten(tasks) = SubSeq(records, 1, pos)
    /\ Len(tasks) = Ceil(pos, ChunkSize)
    /\ frResult = "ok" =>
          /\ pos = Len(records)
          /\ Len(tasks) = Ceil(Len(records), ChunkSize)
          /\ Sum(putCalls) = Ceil(Len(records), ChunkSize)
          /\ \A i \in 1..Len(tasks) : putCalls[i] = 1

\* C5 witness: 1001 records were sent as three batches of 500, 500 and 1.
C5_Witness ==
    /\ frResult = "ok"
    /\ Len(records) = 2 * ChunkSize + 1
    /\ Len(tasks) = 3
    /\ Len(tasks[1]) = ChunkSize /\ Len(tasks[3]) = 1

\* C6: from_records returns normally only when the input is exhausted and
\* every batch's put_record_batch has completed; once a submission raised
\* it never returns normally; each batch is submitted at most once; and at
\* most `threads` submissions are in flight at the same time.
C6_PoolCompletion ==
    /\ frResult = "ok" =>
          /\ pos = Len(records)
          /\ \A i \in 1..Len(tasks) : taskState[i] = "done"
    /\ Failed # {} => frResult \in {"running", "raised"}
    /\ frResult = "raised" => Failed # {}
    /\ \A i \in 1..Len(tasks) :
          /\ putCalls[i] <= 1
          /\ putCalls[i] = 0 <=> taskState[i] = "queued"
    /\ Cardinality(Running) <= threads

\* C6 witness: with two workers and three batches, one submission raised
\* while another had completed and the third was never submitted, and
\* from_records raised.
C6_Witness ==
    /\ threads = 2
    /\ frResult = "raised"
    /\ Cardinality(Failed) = 1 /\ Done # {} /\ Queued # {}

(***************************************************************************)
(* Claims about Database.create_crawler, checked under SpecCreateCrawler.  *)
(***************************************************************************)
CallsFor(n) == {i \in 1..Len(ccLog) : ccLog[i].name = n}

\* C7, as stated: for each crawler name a create call is issued only once,
\* however often create_crawler is called with it.
C7_CreateIssuedOnce == \A n \in CrawlerNames : createRequests[n] <= 1

\* C7, amended: every call of create_crawler sends a create request, but
\* per name only the first creates a crawler; a later call with the same
\* name gets "already exists", which is converted to a lookup, returns the
\* same name as the first, and leaves the stored settings as the first call
\* made them, whatever settings it passes.
C7_IdempotentPerName ==
    \A n \in CrawlerNames :
        /\ createRequests[n] = Cardinality(CallsFor(n))
        /\ Cardinality({i \in CallsFor(n) : ccLog[i].outcome = "created"}) <= 1
        /\ \A i \in CallsFor(n) : \A j \in CallsFor(n) :
              i < j =>
                /\ ccLog[i].returned = n /\ ccLog[j].returned = n
                /\ ccLog[j].outcome = "AlreadyExists"
                /\ ccLog[j].stored = ccLog[i].stored
                /\ crawlers[n] = <<ccLog[i].stored>>
        /\ \A i \in CallsFor(n) :
              (\A h \in CallsFor(n) : i <= h) =>
                  ccLog[i].outcome = "created" /\ ccLog[i].stored = ccLog[i].payload

\* C7 witness: two calls with the same name and different settings; the
\* second was answered "already exists" and the first call's settings stay.
C7_Witness ==
    /\ Len(ccLog) = 2
    /\ ccLog[1].name = ccLog[2].name
    /\ ccLog[1].payload # ccLog[2].payload
    /\ ccLog[2].outcome = "AlreadyExists"
    /\ ccLog[2].returned = ccLog[1].returned
    /\ crawlers[ccLog[1].name] = <<ccLog[1].payload>>

(***************************************************************************)
(* Claims about Database.update_tables, checked under SpecCrawler.         *)
(***************************************************************************)
Polled(r) == r.wait > 0 /\ r.outcome # "raised_at_start"

\* The safety part of C8 (stated in full at C8_CrawlPolling).
C8_Safety ==
    /\ uPc = "sleep" => uSeen \in {"RUNNING", "STOPPING"} /\ uPolls = Len(uSleeps) + 1
    /\ uPc = "poll" => uPolls = Len(uSleeps)
    /\ \A i \in 1..Len(uLog) :
          Polled(uLog[i]) =>
            /\ uLog[i].seen \notin {"RUNNING", "STOPPING"}
            /\ uLog[i].polls = Len(uLog[i].sleeps) + 1
            /\ \A k \in 1..Len(uLog[i].sleeps) : uLog[i].sleeps[k] = uLog[i].wait
            /\ uLog[i].status \in RunStatuses => uLog[i].outcome = "returned"

CrawlersQuiet == \A n \in CrawlerNames : crawlerState[n] \notin {"RUNNING", "STOPPING"}

\* C8: with a positive wait, update_tables sleeps `wait` seconds after every poll that
\* read RUNNING or STOPPING, ends at the first poll that read another state,
\* and then returns normally whichever of SUCCEEDED, FAILED and CANCELLED
\* the last-run status is; and if the crawlers eventually stay out of
\* RUNNING/STOPPING, every call of update_tables eventually ends.
C8_CrawlPolling == []C8_Safety /\ (<>[]CrawlersQuiet => <>[](uPc = "idle"))

\* C8 witness: a waiting call slept twice and returned normally although
\* the run it read was FAILED.
C8_Witness ==
    \E i \in 1..Len(uLog) :
        /\ uLog[i].wait = 60 /\ uLog[i].sleeps = <<60, 60>> /\ uLog[i].polls = 3
        /\ uLog[i].status = "FAILED" /\ uLog[i].outcome = "returned"

(***************************************************************************)
(* Claims about Table.get_versions, checked under SpecVersions.            *)
(***************************************************************************)
AllVersions == [i \in 1..tvCount |-> i]

\* C9, as stated: get_versions ends by returning every version exactly
\* once, in page order; it never holds more entries than the table has
\* versions; and every request after the first carries the continuation
\* token of the page before it.
C9_PaginationReturnsAll ==
    /\ gvResult # "KeyError"
    /\ gvResult = "returned" => versions = AllVersions
    /\ Len(versions) <= tvCount
    /\ \A k \in 2..Len(gvRequests) :
          gvRequests[k] = NextToken(gvRequests[k - 1])

\* C9, the part about requests alone: a request that follows a page with a
\* continuation token carries that token.
C9_RequestsCarryToken ==
    \A k \in 2..Len(gvRequests) :
        HasNextToken(gvRequests[k - 1]) => gvRequests[k] = NextToken(gvRequests[k - 1])

(***************************************************************************)
(* Claims about Database.__init__, checked under SpecDatabase.             *)
(***************************************************************************)
Sent(call) == \E k \in 1..Len(dCalls) : dCalls[k] = call

\* C10: a constructed Database has a non-empty iam_role_arn; without an
\* ARN and with create_iam_role false the constructor raises
\* CheapoDBException and sends no request at all, whatever auto_create is;
\* and create_role is sent only when create_iam_role is true and no ARN was
\* supplied.
C10_RoleResolved ==
    /\ dPc = "constructed" => Truthy(iam_role_arn)
    /\ (~Truthy(argArn) /\ ~argCreateRole) =>
          /\ dPc \in {"new", "raised"}
          /\ dPc = "raised" => dError = "CheapoDBException"
          /\ dCalls = <<>>
    /\ Sent("create_role") => argCreateRole /\ ~Truthy(argArn)
    /\ (Sent("bucket.create") \/ Sent("create_database")) => Truthy(iam_role_arn)

\* C10 witness: no ARN, create_iam_role false and auto_create true: the
\* constructor raised CheapoDBException before any request.
C10_Witness ==
    /\ argArn = "" /\ ~argCreateRole /\ argAutoCreate
    /\ dPc = "raised" /\ dError = "CheapoDBException"
    /\ dCalls = <<>>

(***************************************************************************)
(* Claims about create_cheapodb_role, checked under SpecDatabase.          *)
(***************************************************************************)
RoleSteps == <<"get_caller_identity", "create_role", "attach_role_policy",
               "put_role_policy">>

\* C11: when create_role is answered with "the role already exists", the
\* constructor ends with CheapoDBException, keeps no created ARN, sends
\* neither attach_role_policy nor put_role_policy and attaches nothing to
\* the role that was there; and the ARN of a created role is held only
\* after create_role, attach_role_policy and put_role_policy were sent in
\* that order and all three succeeded on a role that did not exist before.
C11_NeverSilentlyIdempotent ==
    /\ (roleExisted /\ Sent("create_role") /\ dError # "ProviderError") =>
          /\ dPc = "raised"
          /\ dError = "CheapoDBException"
    /\ (roleExisted /\ Sent("create_role")) =>
          /\ iam_role_arn # CreatedArn
          /\ ~Truthy(iam_role_arn)
          /\ ~Sent("attach_role_policy")
          /\ ~Sent("put_role_policy")
          /\ rolePolicies = {}
    /\ iam_role_arn = CreatedArn =>
          /\ ~roleExisted
          /\ Len(dCalls) >= Len(RoleSteps)
          /\ SubSeq(dCalls, 1, Len(RoleSteps)) = RoleSteps
          /\ rolePolicies = {"AWSGlueServiceRole", "CheapoDBRolePolicy"}
    /\ (Sent("create_role") /\ iam_role_arn # CreatedArn) => dPc # "constructed"

\* C11 witness: the role existed, create_role was sent and the constructor
\* ended with CheapoDBException after exactly that request.
C11_Witness ==
    /\ roleExisted
    /\ dCalls = <<"get_caller_identity", "create_role">>
    /\ dPc = "raised" /\ dError = "CheapoDBException"
    /\ rolePolicies = {}

(***************************************************************************)
(* Claims about Table.delete_table, checked under SpecDelete.              *)
(***************************************************************************)
DeleteFinished == delPc \in {"returned", "raised"}

\* C12, as stated: after delete_table(include_data=True) returned, no
\* version of an object under the table's prefix is left and the catalog
\* has no entry of the name describe() asks for; data or an entry that is
\* absent is not an error, and the catalog delete is still requested when
\* no data was found; with include_data=False no object is deleted.
C12_DeleteTablePostcondition ==
    /\ (include_data /\ delPc = "returned") =>
          /\ Listed = {}
          /\ describe_Name \notin catalogTables
    /\ (include_data /\ delPc = "raised") => delError = "ProviderError"
    /\ (include_data /\ DeleteFinished /\ {o \in objectsBefore : UnderPrefix(o[1])} = {}) =>
          \E k \in 1..Len(delCalls) : delCalls[k] = "delete_table"
    /\ ~include_data => objects = objectsBefore

\* C12, the catalog part for either argument: after delete_table returned,
\* the catalog has no entry of the name describe() asks for.
C12_DescribedEntryDeleted ==
    delPc = "returned" => describe_Name \notin catalogTables

\* C12, the part that holds: with include_data=False no object is deleted
\* and exactly one request, the catalog delete, is sent; an entry that is
\* absent is not an error.
C12_WithoutDataNothingDeleted ==
    ~include_data =>
        /\ objects = objectsBefore
        /\ DeleteFinished => delCalls = <<"delete_table">>
        /\ delPc = "raised" => delError = "ProviderError"

(***************************************************************************)
(* Claims about the run update_tables waits for, checked under             *)
(* SpecScheduled.                                                          *)
(***************************************************************************)
\* C13, as stated: when update_tables with a positive wait ends, it returns
\* normally, the run its own start_crawler request started has finished,
\* and the last-run status it read is the status of that run; a call that
\* ended at its first poll did not read the state from before its start.
C13_ReadsOwnRun ==
    \A i \in 1..Len(uLog) :
        Polled(uLog[i]) =>
            /\ uLog[i].outcome = "returned"
            /\ uLog[i].run > 0
            /\ uLog[i].statusRun >= uLog[i].run
            /\ uLog[i].statusRun = uLog[i].run

\* C13, the part that holds with a provider that shows the crawler RUNNING
\* as soon as start_crawler has returned: when update_tables with a positive
\* wait ends, the run it started has finished and some run's status is read.
C13_OwnRunFinished ==
    \A i \in 1..Len(uLog) :
        Polled(uLog[i]) =>
            /\ uLog[i].outcome = "returned"
            /\ uLog[i].run > 0
            /\ uLog[i].statusRun >= uLog[i].run
            /\ uLog[i].status \in RunStatuses

====
